---- MODULE Spec2Model ----
(***************************************************************************)
(* bevy_rx: a synchronous, push-based reactive graph.  Signals are written *)
(* with send_signal; Calc nodes are recomputed from their inputs by a      *)
(* worklist (a Vec used as a stack) until no subscriber is pending.        *)
(***************************************************************************)
EXTENDS Integers, Sequences, FiniteSets, TLC

\* ------------------------------------------------------------------ bounds
MaxNodes == 4   \* nodes (signals and calcs) created in one context
MaxVal   == 1   \* stored values range over 0..MaxVal
MaxSubs  == 2   \* a new send_signal starts only while every subscriber
                \* list holds at most this many entries

Vals == 0..MaxVal

\* Arities of the input tuples the model creates (the macro covers 1..32).
Arities == {1, 2}

\* User-supplied derivation functions the model draws from.
DeriveFns == {"and", "add", "cond", "inc"}

RECURSIVE SumSeq(_)
SumSeq(s) == IF s = <<>> THEN 0 ELSE Head(s) + SumSeq(Tail(s))

\* derive_fn applied to the tuple of input values.
\*   and  : Lock::two_buttons, every input active
\*   add  : the sum of the inputs (kept inside Vals)
\*   cond : uses the first input only when the last input is true
\*   inc  : the increment of the sum of the inputs (kept inside Vals)
Apply(f, args) ==
    CASE f = "and"  -> IF \A i \in 1..Len(args) : args[i] # 0 THEN 1 ELSE 0
      [] f = "add"  -> SumSeq(args) % (MaxVal + 1)
      [] f = "cond" -> IF args[Len(args)] # 0 THEN args[1] ELSE 0
      [] f = "inc"  -> (SumSeq(args) + 1) % (MaxVal + 1)

Range(s) == {s[i] : i \in 1..Len(s)}

\* ------------------------------------------------------------------- state
VARIABLES
    kind,       \* kind[n]   : "signal" or "calc", one entry per created node
    inputs,     \* inputs[n] : input_deps captured by the node's CalcFunction
    fn,         \* fn[n]     : derive_fn captured by the node's CalcFunction
    data,       \* data[n]   : Reactive.data
    subs,       \* subs[n]   : Reactive.subscribers
    stack,      \* the Vec<Entity> worklist of the running send_signal
    pc,         \* "idle", "propagating", "returning", "reading", "panicked"
    written,    \* <<signal, value, changed>> of the send_signal in progress
    prev,       \* the last send_signal that returned since the last creation
    recomputes, \* recomputes[n] : executions of n's CalcFunction in this call
    changes,    \* changes[n]    : stores of a new value into n in this call
    lastRead,   \* lastRead[n]   : the input values n's last execution read
    reading,    \* the node whose value a caller holds a reference to, or 0
    fault       \* the input tuple on which Calc::new panicked, or <<>>

vars == <<kind, inputs, fn, data, subs, stack, pc, written, prev,
          recomputes, changes, lastRead, reading, fault>>

graph == <<kind, inputs, fn>>

Nodes == 1..Len(kind)

NoWrite == <<0, 0, FALSE>>

Zeros == [n \in Nodes |-> 0]

\* ReactiveContext::default(): an empty world.
Init ==
    /\ kind = <<>>
    /\ inputs = <<>>
    /\ fn = <<>>
    /\ data = <<>>
    /\ subs = <<>>
    /\ stack = <<>>
    /\ pc = "idle"
    /\ written = NoWrite
    /\ prev = NoWrite
    /\ recomputes = <<>>
    /\ changes = <<>>
    /\ lastRead = <<>>
    /\ reading = 0
    /\ fault = <<>>

\* ----------------------------------------------------------------- helpers

\* What data[n] holds for an entity without a Reactive component.
NoRecord == MaxVal + 1

\* A handle whose entity exists in this world without a Reactive of the
\* handle's type (a handle that another context issued).
Stray == 0

\* get_mut::<Reactive<T>>() returns None for the input.
Missing(dt, i) == i \notin DOMAIN dt \/ dt[i] = NoRecord

HasMissing(dt, ins) == \E k \in 1..Len(ins) : Missing(dt, ins[k])

\* The inputs subscribed to before the first `?` returns None.
Reached(dt, ins) ==
    SubSeq(ins, 1,
           Cardinality({k \in 1..Len(ins) :
                           \A j \in 1..k : ~Missing(dt, ins[j])}))

NeverAliased(ins) == FALSE

\* World::get_many_entities_mut fails when an entity is requested twice.
Aliased(ins) == \E i, j \in 1..Len(ins) : i # j /\ ins[i] = ins[j]

\* Reactive::subscribe: the reader is pushed onto the subscriber list.
Subscribe(sl, reader) == Append(sl, reader)

SubscribeFirstInput(sb, ins, reader) ==
    [n \in DOMAIN sb |->
        IF n = ins[1] THEN Subscribe(sb[n], reader) ELSE sb[n]]

SubscribeLastInput(sb, ins, reader) ==
    [n \in DOMAIN sb |->
        IF n = ins[Len(ins)] THEN Subscribe(sb[n], reader) ELSE sb[n]]

SubscribeEverywhere(sb, ins, reader) ==
    [n \in DOMAIN sb |-> Subscribe(sb[n], reader)]

\* The reader subscribes to every input of the tuple.
SubscribeInputs(sb, ins, reader) ==
    [n \in DOMAIN sb |->
        IF n \in Range(ins) THEN Subscribe(sb[n], reader) ELSE sb[n]]

ReadFirstValue(dt, ins) == [i \in 1..Len(ins) |-> dt[ins[1]]]

\* The tuple of references to the inputs' current data.
ReadValues(dt, ins) == [i \in 1..Len(ins) |-> dt[ins[i]]]

\* CalcQuery::read_and_derive once the inputs are borrowed and subscribed.
ReadAndDerive(dt, f, ins) == Apply(f, ReadValues(dt, ins))

SameValueNever(stored, computed) == FALSE

\* The diff of the stored value against the computed value.
SameValue(stored, computed) == stored = computed

EnqueueNone(st, sl) == st

EnqueueFirst(st, sl) == IF sl = <<>> THEN st ELSE Append(st, sl[1])

\* stack.append(&mut reactive.subscribers)
Enqueue(st, sl) == st \o sl

SignalUnchangedNever(stored, value) == FALSE

\* send_signal's diff of the stored value against the written value.
SignalUnchanged(stored, value) == stored = value

\* The entry the propagation loop pops, and the stack it leaves.
Top(st) == st[Len(st)]
Rest(st) == SubSeq(st, 1, Len(st) - 1)

LoopDoneEarly(st) == Len(st) <= 1

\* The propagation loop ends when nothing is left to pop.
LoopDone(st) == st = <<>>

ReadSubscribes(sb, n) == [sb EXCEPT ![n] = Subscribe(@, n)]

\* The subscriber lists after a read: world.get is a shared borrow.
ReadBorrow(sb, n) == sb

\* -------------------------------------------------------------- operations

\* ReactiveContext::signal / Signal::new: a fresh entity holding the initial
\* value and no subscribers.
Signal(v) ==
    /\ pc = "idle"
    /\ Len(kind) < MaxNodes
    /\ kind' = Append(kind, "signal")
    /\ inputs' = Append(inputs, <<>>)
    /\ fn' = Append(fn, "none")
    /\ data' = Append(data, v)
    /\ subs' = Append(subs, <<>>)
    /\ recomputes' = Append(recomputes, 0)
    /\ changes' = Append(changes, 0)
    /\ lastRead' = Append(lastRead, <<>>)
    /\ prev' = NoWrite
    /\ UNCHANGED <<stack, pc, written, reading, fault>>

\* ReactiveContext::calc / Calc::new: spawn the entity and execute the new
\* CalcFunction once with an empty stack.  An input tuple that names an
\* entity twice makes the unwrap in read_and_derive panic before anything
\* is subscribed or inserted.  Otherwise the reader subscribes to its
\* inputs and, the entity having no Reactive yet, the computed value is
\* inserted with no subscribers; then the CalcFunction is inserted.  An
\* input without a Reactive makes read_and_derive return None after the
\* inputs before it were subscribed to: nothing is inserted but the
\* CalcFunction, and the handle is returned.
Calc(ins, f) ==
    /\ pc = "idle"
    /\ Len(kind) < MaxNodes
    /\ IF Aliased(ins)
       THEN /\ pc' = "panicked"
            /\ fault' = ins
            /\ UNCHANGED <<kind, inputs, fn, data, subs, recomputes,
                           changes, lastRead, prev>>
       ELSE /\ LET d == Len(kind) + 1
               IN  /\ kind' = Append(kind, "calc")
                   /\ inputs' = Append(inputs, ins)
                   /\ fn' = Append(fn, f)
                   /\ IF HasMissing(data, ins)
                      THEN /\ subs' = Append(SubscribeInputs(
                                          subs, Reached(data, ins), d), <<>>)
                           /\ data' = Append(data, NoRecord)
                           /\ lastRead' = Append(lastRead, <<>>)
                      ELSE /\ subs' = Append(SubscribeInputs(subs, ins, d),
                                             <<>>)
                           /\ data' = Append(data,
                                             ReadAndDerive(data, f, ins))
                           /\ lastRead' = Append(lastRead,
                                                 ReadValues(data, ins))
            /\ recomputes' = Append(recomputes, 0)
            /\ changes' = Append(changes, 0)
            /\ prev' = NoWrite
            /\ UNCHANGED <<pc, fault>>
    /\ UNCHANGED <<stack, written, reading>>

\* ReactiveContext::send_signal, up to the propagation loop: diff the value;
\* if it is new, store it and take the subscriber list as the stack.
SendSignal(s, v) ==
    /\ pc = "idle"
    /\ kind[s] = "signal"
    /\ \A n \in Nodes : Len(subs[n]) <= MaxSubs
    /\ IF SignalUnchanged(data[s], v)
       THEN /\ pc' = "returning"
            /\ written' = <<s, v, FALSE>>
            /\ UNCHANGED <<data, subs, stack, changes>>
       ELSE /\ pc' = "propagating"
            /\ written' = <<s, v, TRUE>>
            /\ data' = [data EXCEPT ![s] = v]
            /\ stack' = subs[s]
            /\ subs' = [subs EXCEPT ![s] = <<>>]
            /\ changes' = [changes EXCEPT ![s] = @ + 1]
    /\ UNCHANGED <<kind, inputs, fn, prev, recomputes, lastRead, reading,
                   fault>>

\* One iteration of the loop: pop a subscriber and execute its CalcFunction
\* (the closure built by CalcFunction::new).  When read_and_derive returns
\* None the closure does nothing more.
Execute ==
    /\ pc = "propagating"
    /\ ~LoopDone(stack)
    /\ LET d        == Top(stack)
           sb       == SubscribeInputs(subs, inputs[d], d)
           computed == ReadAndDerive(data, fn[d], inputs[d])
       IN  /\ recomputes' = [recomputes EXCEPT ![d] = @ + 1]
           /\ IF HasMissing(data, inputs[d])
              THEN /\ subs' = SubscribeInputs(subs,
                                              Reached(data, inputs[d]), d)
                   /\ stack' = Rest(stack)
                   /\ UNCHANGED <<data, changes, lastRead>>
              ELSE /\ lastRead' = [lastRead EXCEPT
                                       ![d] = ReadValues(data, inputs[d])]
                   /\ IF SameValue(data[d], computed)
                      THEN /\ subs' = sb
                           /\ stack' = Rest(stack)
                           /\ UNCHANGED <<data, changes>>
                      ELSE /\ data' = [data EXCEPT ![d] = computed]
                           /\ stack' = Enqueue(Rest(stack), sb[d])
                           /\ subs' = [sb EXCEPT ![d] = <<>>]
                           /\ changes' = [changes EXCEPT ![d] = @ + 1]
    /\ UNCHANGED <<kind, inputs, fn, pc, written, prev, reading, fault>>

\* The stack is empty (or the write was diffed away): send_signal returns.
Return ==
    /\ \/ pc = "propagating" /\ LoopDone(stack)
       \/ pc = "returning"
    /\ pc' = "idle"
    /\ prev' = written
    /\ written' = NoWrite
    /\ recomputes' = Zeros
    /\ changes' = Zeros
    /\ UNCHANGED <<kind, inputs, fn, data, subs, stack, lastRead, reading,
                   fault>>

\* ReactiveContext::read / Calc::read: the caller gets a reference to the
\* stored value, which borrows the context; the unwrap panics when the
\* entity has no Reactive.
Read(n) ==
    /\ pc = "idle"
    /\ pc' = IF Missing(data, n) THEN "panicked" ELSE "reading"
    /\ reading' = n
    /\ subs' = ReadBorrow(subs, n)
    /\ UNCHANGED <<kind, inputs, fn, data, stack, written, prev, recomputes,
                   changes, lastRead, fault>>

\* The reference is dropped; the context can be used again.
Release ==
    /\ pc = "reading"
    /\ pc' = "idle"
    /\ reading' = 0
    /\ UNCHANGED <<kind, inputs, fn, data, subs, stack, written, prev,
                   recomputes, changes, lastRead, fault>>

InputTuples == UNION {[1..a -> Nodes] : a \in Arities}

Next ==
    \/ \E v \in Vals : Signal(v)
    \/ \E ins \in InputTuples, f \in DeriveFns : Calc(ins, f)
    \/ \E s \in Nodes, v \in Vals : SendSignal(s, v)
    \/ Execute
    \/ Return
    \/ \E n \in Nodes : Read(n)
    \/ Release

Spec == Init /\ [][Next]_vars

\* The loop iteration with the pending entry at position k taken instead
\* of the last one: the same closure runs on stack[k].
ExecuteAt(k) ==
    /\ pc = "propagating"
    /\ ~LoopDone(stack)
    /\ LET d        == stack[k]
           others   == SubSeq(stack, 1, k - 1) \o
                       SubSeq(stack, k + 1, Len(stack))
           sb       == SubscribeInputs(subs, inputs[d], d)
           computed == ReadAndDerive(data, fn[d], inputs[d])
       IN  /\ recomputes' = [recomputes EXCEPT ![d] = @ + 1]
           /\ IF HasMissing(data, inputs[d])
              THEN /\ subs' = SubscribeInputs(subs,
                                              Reached(data, inputs[d]), d)
                   /\ stack' = others
                   /\ UNCHANGED <<data, changes, lastRead>>
              ELSE /\ lastRead' = [lastRead EXCEPT
                                       ![d] = ReadValues(data, inputs[d])]
                   /\ IF SameValue(data[d], computed)
                      THEN /\ subs' = sb
                           /\ stack' = others
                           /\ UNCHANGED <<data, changes>>
                      ELSE /\ data' = [data EXCEPT ![d] = computed]
                           /\ stack' = Enqueue(others, sb[d])
                           /\ subs' = [sb EXCEPT ![d] = <<>>]
                           /\ changes' = [changes EXCEPT ![d] = @ + 1]
    /\ UNCHANGED <<kind, inputs, fn, pc, written, prev, reading, fault>>

\* The program with the pending entries processed in any order.
OrderNext ==
    \/ \E v \in Vals : Signal(v)
    \/ \E ins \in InputTuples, f \in DeriveFns : Calc(ins, f)
    \/ \E s \in Nodes, v \in Vals : SendSignal(s, v)
    \/ \E k \in 1..Len(stack) : ExecuteAt(k)
    \/ Return
    \/ \E n \in Nodes : Read(n)
    \/ Release

OrderSpec == Init /\ [][OrderNext]_vars

\* Input tuples with a stray handle in them.
StrayTuples ==
    UNION {[1..a -> Nodes \cup {Stray}] : a \in Arities} \ InputTuples

\* The program when a caller also passes handles that this context did not
\* issue.
MisuseNext ==
    \/ Next
    \/ \E ins \in StrayTuples : Calc(ins, "and")

MisuseSpec == Init /\ [][MisuseNext]_vars

\* send_signal is a sequential loop: a pending iteration or return is taken.
FairSpec == Spec /\ WF_vars(Execute) /\ WF_vars(Return)

\* ------------------------------------------------------------------ claims

\* The derivation of a calc node from the values its inputs hold now.
Derived(d) == Apply(fn[d], [i \in 1..Len(inputs[d]) |-> data[inputs[d][i]]])

\* n depends on s through one or more input tuples.
RECURSIVE DependsOn(_, _)
DependsOn(n, s) ==
    \E i \in Range(inputs[n]) : i = s \/ DependsOn(i, s)

\* The propagation loop of the running send_signal has nothing left to pop.
EpisodeEnd == pc = "propagating" /\ stack = <<>>

\* C1: whenever a create or send_signal call has returned, every calc
\* node's stored value is its derivation function applied to the values its
\* inputs store now.
ConsistentAtQuiescence ==
    pc = "idle" =>
        \A d \in Nodes : kind[d] = "calc" => data[d] = Derived(d)

\* A changing write has returned, and a calc node two levels below the
\* written signal holds a non-zero value.
ConsistentWitness ==
    /\ pc = "idle"
    /\ prev[3]
    /\ \E d, e \in Nodes :
          /\ kind[d] = "calc" /\ prev[1] \in Range(inputs[d])
          /\ kind[e] = "calc" /\ d \in Range(inputs[e])
          /\ data[e] # 0

\* S is a signal, A and B are calc nodes reading S, C reads exactly A and B.
Diamond(S, A, B, C) ==
    /\ kind[S] = "signal" /\ kind[A] = "calc" /\ kind[B] = "calc"
    /\ kind[C] = "calc" /\ A # B
    /\ S \in Range(inputs[A]) /\ S \in Range(inputs[B])
    /\ Range(inputs[C]) = {A, B}

\* C2: when the propagation of a write to S ends, in every diamond over S
\* the last recomputation of C read the values A and B hold at the end, C
\* holds the derivation of those values, and A and B are up to date.
DiamondConvergence ==
    \A S, A, B, C \in Nodes :
        (EpisodeEnd /\ written[1] = S /\ Diamond(S, A, B, C)) =>
            /\ data[A] = Derived(A)
            /\ data[B] = Derived(B)
            /\ lastRead[C] = [i \in 1..Len(inputs[C]) |-> data[inputs[C][i]]]
            /\ data[C] = Apply(fn[C], lastRead[C])

\* The propagation of a write to the source of a diamond has ended after C
\* was recomputed more than once.
DiamondWitness ==
    \E S, A, B, C \in Nodes :
        /\ EpisodeEnd /\ written[1] = S /\ Diamond(S, A, B, C)
        /\ recomputes[C] >= 2
        /\ data[C] # 0

\* C3: a send_signal whose value is the signal's current value, or that
\* repeats the signal and value of the call before it, changes no value and
\* no subscriber list and recomputes nothing before it returns.
IdempotentWrite ==
    [][ /\ ( /\ pc = "idle"
             /\ pc' \in {"propagating", "returning"}
             /\ \/ data[written'[1]] = written'[2]
                \/ (prev[1] = written'[1] /\ prev[2] = written'[2]) )
           => ( /\ pc' = "returning"
                /\ UNCHANGED <<graph, data, subs, stack, recomputes,
                               lastRead>> )
        /\ pc = "returning"
           => ( /\ pc' = "idle"
                /\ recomputes = Zeros
                /\ UNCHANGED <<graph, data, subs, stack, lastRead>> )
      ]_vars

\* A write that changed a signal with a subscriber has returned, and the
\* same value is being written to the same signal again.
IdempotentWitness ==
    /\ pc = "returning"
    /\ prev[3]
    /\ prev[1] = written[1] /\ prev[2] = written[2]
    /\ \E d \in Nodes : written[1] \in Range(inputs[d])

\* D is the calc node cond(X, Y) over two signals: it uses X only when Y
\* is true.
CondShape(D, X, Y) ==
    /\ kind[D] = "calc" /\ fn[D] = "cond" /\ inputs[D] = <<X, Y>>
    /\ kind[X] = "signal" /\ kind[Y] = "signal"

AliasingIsFatal ==
    /\ [](\A n \in Nodes : ~(\E i, j \in 1..Len(inputs[n]) :
                                i # j /\ inputs[n][i] = inputs[n][j]))
    /\ [][ fault' # fault =>
             ( /\ \E i, j \in 1..Len(fault') : i # j /\ fault'[i] = fault'[j]
               /\ pc' = "panicked"
               /\ UNCHANGED <<graph, data, subs, stack>> ) ]_vars
    /\ [][ pc = "panicked" => UNCHANGED vars ]_vars

\* Calc::new has panicked on a tuple that names an existing node twice.
AliasingWitness ==
    /\ pc = "panicked"
    /\ Len(fault) = 2 /\ fault[1] = fault[2] /\ fault[1] \in Nodes
    /\ subs[fault[1]] # <<>>

\* C6: right after calc returns, with no write in between, the new node
\* holds its function applied to the current values of its inputs.
ComputeOnCreate ==
    (pc = "idle" /\ prev = NoWrite /\ kind # <<>>) =>
        LET d == Len(kind)
        IN  kind[d] = "calc" =>
                /\ data[d] = Derived(d)
                /\ subs[d] = <<>>

\* A calc node over two calc nodes was just created and is non-zero.
ComputeOnCreateWitness ==
    /\ pc = "idle" /\ prev = NoWrite /\ kind # <<>>
    /\ LET d == Len(kind)
       IN  /\ kind[d] = "calc" /\ Len(inputs[d]) = 2
           /\ \A i \in Range(inputs[d]) : kind[i] = "calc"
           /\ fn[d] = "add"
           /\ data[d] # 0

\* C7: every send_signal call returns, and once it has the stack is empty.
SendSignalTerminates ==
    /\ [](pc = "idle" => stack = <<>>)
    /\ (pc \in {"propagating", "returning"}) ~> (pc = "idle")

\* A propagation with several entries pending and a node already
\* recomputed twice.
TerminatesWitness ==
    /\ pc = "propagating"
    /\ Len(stack) >= 2
    /\ \E n \in Nodes : recomputes[n] >= 2

WriteLocality ==
    [][ \A n \in Nodes :
          /\ data'[n] # data[n] =>
                \/ (pc = "idle" /\ pc' = "propagating" /\ written'[1] = n)
                \/ ( /\ pc = "propagating" /\ kind[n] = "calc"
                     /\ DependsOn(n, written[1]) )
          /\ (pc # "idle" /\ recomputes'[n] > recomputes[n]) =>
                (kind[n] = "calc" /\ DependsOn(n, written[1]))
      ]_vars

\* A write has propagated through a calc node while another signal and a
\* calc node that does not read the written signal exist.
LocalityWitness ==
    \E s, t, d, e \in Nodes :
        /\ EpisodeEnd /\ written[1] = s
        /\ kind[t] = "signal" /\ t # s
        /\ kind[d] = "calc" /\ recomputes[d] >= 1
        /\ kind[e] = "calc" /\ inputs[e] = <<t>>

Queriers(n) == {d \in Nodes : kind[d] = "calc" /\ n \in Range(inputs[d])}

\* C11: when the popped node's candidate value differs from its stored
\* value, the candidate is stored, every entry of the node's subscriber
\* list is appended to the stack in order, and the node's list is empty.
ChangedStep ==
    [][ ( /\ pc = "propagating" /\ stack # <<>>
          /\ data[stack[Len(stack)]] # Derived(stack[Len(stack)]) )
        => LET d == stack[Len(stack)]
           IN  /\ data'[d] = Derived(d)
               /\ \A n \in Nodes \ {d} : data'[n] = data[n]
               /\ stack' = SubSeq(stack, 1, Len(stack) - 1) \o subs[d]
               /\ subs'[d] = <<>>
      ]_vars

\* A recomputed node has just changed: its two subscribers are on top of
\* the stack, not yet recomputed, and its own list is empty.
ChangedStepWitness ==
    \E d \in Nodes :
        /\ pc = "propagating"
        /\ kind[d] = "calc" /\ recomputes[d] = 1 /\ data[d] # 0
        /\ subs[d] = <<>>
        /\ Len(stack) >= 2
        /\ stack[Len(stack)] # stack[Len(stack) - 1]
        /\ \A k \in {Len(stack) - 1, Len(stack)} :
              inputs[stack[k]] = <<d>> /\ recomputes[stack[k]] = 0

\* C12 as stated: right after a write to a node or a recomputation of it,
\* the set of its subscribers is the set of nodes that query it.
SubscriptionAccuracy ==
    [][ \A n \in Nodes :
          ( \/ ( /\ pc = "idle" /\ pc' \in {"propagating", "returning"}
                 /\ written'[1] = n )
            \/ (pc = "propagating" /\ recomputes'[n] > recomputes[n]) )
          => Range(subs'[n]) = Queriers(n)
      ]_vars

\* C12 as amended: every subscriber of a node queries it, and every node
\* that queries it is in its list or pending on the stack; so the two sets
\* are equal whenever the stack is empty, and a changed node's list is
\* empty right after the change.
SubscriptionAccuracyEventual ==
    /\ \A n \in Nodes :
          /\ Range(subs[n]) \subseteq Queriers(n)
          /\ Queriers(n) \subseteq Range(subs[n]) \cup Range(stack)
    /\ (pc = "propagating" /\ recomputes = Zeros) => subs[written[1]] = <<>>

\* A changing write to a signal with two readers has just taken the list.
SubscriptionAccuracyWitness ==
    /\ pc = "propagating" /\ recomputes = Zeros
    /\ Cardinality(Queriers(written[1])) = 2
    /\ Range(stack) = Queriers(written[1])

\* C16: creating a calc node pushes the new node once onto the list of each
\* of its inputs and of no other node, stores its value with an empty list,
\* and changes no existing value, recomputes nothing and leaves the stack.
CreationFrame ==
    [][ (Len(kind') = Len(kind) + 1 /\ kind'[Len(kind')] = "calc") =>
          LET d == Len(kind')
          IN  /\ \A n \in Nodes :
                    /\ data'[n] = data[n]
                    /\ recomputes'[n] = recomputes[n]
                    /\ lastRead'[n] = lastRead[n]
                    /\ subs'[n] = IF n \in Range(inputs'[d])
                                  THEN Append(subs[n], d) ELSE subs[n]
              /\ subs'[d] = <<>>
              /\ data'[d] \in Vals
              /\ recomputes'[d] = 0
              /\ stack' = stack /\ stack = <<>>
              /\ pc' = "idle"
      ]_vars

\* A calc node over two inputs that already had subscribers was just
\* created.
CreationFrameWitness ==
    /\ pc = "idle" /\ prev = NoWrite /\ kind # <<>>
    /\ LET d == Len(kind)
       IN  /\ kind[d] = "calc" /\ Len(inputs[d]) = 2
           /\ \A i \in Range(inputs[d]) :
                 Len(subs[i]) >= 2 /\ subs[i][Len(subs[i])] = d

\* C17: when no call is in progress, every calc node occurs at least once
\* in the list of each of its inputs, and every entry of a list is a calc
\* node with that node among its inputs.
NoLostSubscription ==
    pc = "idle" =>
        /\ \A d \in Nodes : kind[d] = "calc" =>
              \A k \in 1..Len(inputs[d]) :
                  \E j \in 1..Len(subs[inputs[d][k]]) :
                      subs[inputs[d][k]][j] = d
        /\ \A n \in Nodes : \A j \in 1..Len(subs[n]) :
              /\ kind[subs[n][j]] = "calc"
              /\ \E k \in 1..Len(inputs[subs[n][j]]) :
                    inputs[subs[n][j]][k] = n

\* A changing write has returned; a calc node over the written signal and
\* another calc node is listed by both.
NoLostSubscriptionWitness ==
    /\ pc = "idle" /\ prev[3]
    /\ \E d, e \in Nodes :
          /\ kind[d] = "calc" /\ kind[e] = "calc"
          /\ inputs[d] = <<prev[1], e>>
          /\ prev[1] \in Range(inputs[e])

\* C18 as stated: when no call is in progress, no list holds the same
\* subscriber twice.
NoDuplicateSubscriptions ==
    pc = "idle" =>
        \A n \in Nodes : \A i, j \in 1..Len(subs[n]) :
            i # j => subs[n][i] # subs[n][j]

\* C18 as amended: a list never holds more distinct subscribers than the
\* node has readers, but each execution of a reader adds one entry to the
\* list of each of its inputs, so a list does grow with repeated writes.
DuplicatesAccumulate ==
    /\ [](\A n \in Nodes :
             Cardinality(Range(subs[n])) <= Cardinality(Queriers(n)))
    /\ [][ \A d \in Nodes :
             (pc = "propagating" /\ recomputes'[d] = recomputes[d] + 1) =>
                 \A n \in Nodes \ {d} :
                     Len(subs'[n]) = Len(subs[n]) +
                         (IF n \in Range(inputs[d]) THEN 1 ELSE 0)
         ]_vars

\* A write has returned and left a list holding its only reader twice.
DuplicatesWitness ==
    /\ pc = "idle" /\ prev[3]
    /\ \E n \in Nodes :
          /\ Cardinality(Queriers(n)) = 1
          /\ Len(subs[n]) >= 2

\* The changes, in this call, of the inputs of n.
RECURSIVE InputChanges(_, _)
InputChanges(n, k) ==
    IF k = 0 THEN 0 ELSE changes[inputs[n][k]] + InputChanges(n, k - 1)

\* C13: when a propagation ends every calc node has been recomputed at
\* least once for each change of each of its inputs; so in a diamond whose
\* two middle nodes both changed, the bottom node was recomputed more than
\* once within the one send_signal.
RepeatedRecomputation ==
    EpisodeEnd =>
        /\ \A n \in Nodes : kind[n] = "calc" =>
              recomputes[n] >= InputChanges(n, Len(inputs[n]))
        /\ \A S, A, B, C \in Nodes :
              ( /\ written[1] = S /\ Diamond(S, A, B, C)
                /\ changes[A] >= 1 /\ changes[B] >= 1 )
              => recomputes[C] > 1

\* The write to the source of a diamond changed both middle nodes, and the
\* bottom node was recomputed more than once.
RepeatedWitness ==
    \E S, A, B, C \in Nodes :
        /\ EpisodeEnd /\ written[1] = S /\ Diamond(S, A, B, C)
        /\ changes[A] >= 1 /\ changes[B] >= 1
        /\ recomputes[C] > 1

\* The value of n computed from the signals' values alone.
RECURSIVE Eval(_)
Eval(n) ==
    IF kind[n] = "signal" THEN data[n]
    ELSE Apply(fn[n], [k \in 1..Len(inputs[n]) |-> Eval(inputs[n][k])])

\* C14: with the pending entries processed in any order, the values all
\* nodes hold once send_signal has returned are those computed from the
\* graph and the signals' values alone, so runs that differ only in the
\* order end in the same values.
OrderIndependence ==
    pc = "idle" => \A n \in Nodes : data[n] = Eval(n)

\* In a diamond whose middle nodes read only the source, both have changed
\* before the bottom node was recomputed, which the last-in-first-out
\* order never does.
OrderWitness ==
    \E S, A, B, C \in Nodes :
        /\ pc = "propagating" /\ written[1] = S /\ Diamond(S, A, B, C)
        /\ inputs[A] = <<S>> /\ inputs[B] = <<S>>
        /\ changes[A] >= 1 /\ changes[B] >= 1
        /\ recomputes[C] = 0

====
